---- MODULE Spec2Model ----
(***************************************************************************)
(* State-machine model of the ge_world environments:                       *)
(*   ge_world/amy_point_mass.py  (Controls, PointMassEnv)                  *)
(*   ge_world/peg_2d.py          (good_goal, good_state, Peg2DEnv)         *)
(*                                                                         *)
(* Lengths and positions are integers in units of 0.01 (so 0.02 is 2, 0.3  *)
(* is 30, the out-of-frame slot position 1 is 100).  Squared Euclidean     *)
(* norms are compared with squared thresholds, which is exact on this      *)
(* lattice.  The physics engine (do_simulation) and the random generators  *)
(* are nondeterministic choices from small sample sets of their ranges.    *)
(***************************************************************************)
EXTENDS Integers, Sequences, FiniteSets, TLC

VARIABLES
    kind,          \* which environment was constructed: "pm" or "peg"
    discrete,      \* self.discrete
    a_dict,        \* self.a_dict (<<>> when the environment is continuous)
    n_actions,     \* n of the declared spaces.Discrete(n) (0 when continuous)
    k,             \* Controls.k
    goals,         \* Controls.goals
    index,         \* Controls.index
    fix_goal,      \* PointMassEnv.fix_goal
    pos,           \* point-mass sim.data.qpos[:2]
    handed,        \* history: a caller has supplied goals to sample_goal
    was_reset,     \* history: reset_model has run
    cfg,           \* Peg2DEnv constructor arguments kept on the instance
    goal,          \* Peg2DEnv.goal: <<>> while the attribute is unset, else <<g>>
    qpos,          \* peg sim.data.qpos: three joints and the goal slot
    reach_counts,  \* Peg2DEnv.reach_counts
    pc,            \* position inside a running reset_model call, or "idle"
    args,          \* arguments of the running reset_model call
    cand,          \* _get_goal's loop variable: the candidate examined last
    hist,          \* history: the steps since the last reset
    ret            \* what the last call returned or raised

vars == <<kind, discrete, a_dict, n_actions, k, goals, index, fix_goal, pos,
          handed, was_reset, cfg, goal, qpos, reach_counts, pc, args, cand,
          hist, ret>>

pmVars == <<k, goals, index, fix_goal, pos, handed, was_reset>>
pegVars == <<cfg, goal, qpos, reach_counts, pc, args, cand, hist>>
ctorVars == <<kind, discrete, a_dict, n_actions>>

----------------------------------------------------------------------------
(* Bounds of the model *)

\* largest k_goals a Controls object is constructed with
MaxK == 2
\* most steps taken between two resets of the peg environment
MaxSteps == 3

----------------------------------------------------------------------------
(* Program constants, in units of 0.01 (squared where a norm is compared) *)

\* 0.02 squared: get_reward compares norm(state - goal) < 0.02
Thresh2 == 4
\* np.random.uniform(-0.3, 0.3, 2) in reset_model
BoxHigh == 30
\* act value .5 of the point-mass table
PMScale == 50
\* good_goal: goal[0] < 0.26 and -0.26 < goal[0]
GoodGoalBound == 26
\* good_state: |state[0]| < pi / 2, in units of 0.0001
HalfPi == 15708
\* qpos[3:] = [1]: the slot position that is out of the camera frame
OutOfFrame == 100
\* size=(4, 1) and size=(4, 3): candidates per batch
BatchSize == 4

----------------------------------------------------------------------------
(* Python and numpy helpers *)

\* list[i] with Python's index rule: position (1-based) of the element, or 0
\* when the index raises IndexError; indexes -n .. -1 count from the end
PyIndex(n, i) ==
    IF 0 <= i /\ i < n THEN i + 1
    ELSE IF -n <= i /\ i < 0 THEN n + i + 1
    ELSE 0

Sq(v) == v * v

RECURSIVE SumSq(_)
\* np.square(v).sum() of a flat sequence
SumSq(v) == IF v = <<>> THEN 0 ELSE Sq(Head(v)) + SumSq(Tail(v))

\* the comprehension over two nested "for" loops: a varies slowest
Pairs(actions) ==
    [n \in 1..(Len(actions) * Len(actions)) |->
        <<actions[((n - 1) \div Len(actions)) + 1],
          actions[((n - 1) % Len(actions)) + 1]>>]

\* the comprehension over three nested "for" loops: a slowest, c fastest
Triples(actions) ==
    LET m == Len(actions) IN
    [n \in 1..(m * m * m) |->
        <<actions[((n - 1) \div (m * m)) + 1],
          actions[(((n - 1) \div m) % m) + 1],
          actions[((n - 1) % m) + 1]>>]

NotAllZero(t) == \E i \in 1..Len(t) : t[i] # 0

----------------------------------------------------------------------------
(* Construction of the discrete action tables *)

\* PointMassEnv.__init__: actions = [-.5, 0, .5]; the zero pair is filtered
PMTable == SelectSeq(Pairs(<<-PMScale, 0, PMScale>>), NotAllZero)

\* PointMassEnv.__init__: spaces.Discrete(8)
PMDiscreteN == 8

\* mutant of PegTable: the id_less filter is dropped
PegTableKeepZero(act_scale, id_less) ==
    Triples(<<-(100 * act_scale), 0, 100 * act_scale>>)

\* Peg2DEnv.__init__: actions = [-act_scale, 0, act_scale]
PegTable(act_scale, id_less) ==
    LET all == Triples(<<-(100 * act_scale), 0, 100 * act_scale>>) IN
    IF id_less THEN SelectSeq(all, NotAllZero) ELSE all

\* Peg2DEnv.__init__: spaces.Discrete(26) or spaces.Discrete(27)
PegDiscreteN(id_less) == IF id_less THEN 26 ELSE 27

----------------------------------------------------------------------------
(* What a call returned or raised *)

NoObs == [x |-> <<>>, goal |-> <<>>, img |-> <<>>]

\* status is "ok" or the name of the exception raised; reward of a peg step
\* is kept as -(norm squared), which is zero, or negative, exactly when the
\* reward -norm is
Ret(op, status) ==
    [op |-> op, status |-> status, arg |-> 0, ctrl |-> <<>>, reward |-> 0,
     done |-> FALSE, obs |-> NoObs, pre |-> <<>>]

----------------------------------------------------------------------------
(* Sample sets of the random draws and of the simulator's outcomes *)

\* rows drawn by rng.uniform(low=5, high=1, size=(k, 2)): 5 - 4u, u in [0, 1)
CtorRows == {<<150, 500>>, <<500, 101>>}

\* coordinates drawn by np.random.uniform(-0.3, 0.3, 2)
BoxVals == {-BoxHigh, 1, BoxHigh}

\* positions qpos[:2] the simulator and the reset leave the point mass at
PosSet == {<<1, 1>>, <<3, 1>>, <<0, 1>>, <<BoxHigh, BoxHigh>>}

\* goal arrays a caller hands to sample_goal
CallerRows == {<<40, -40>>}

\* continuous controls a caller passes to the point-mass step
PMContActs == {<<0, 0>>, <<50, -50>>}

\* explicit indexes a caller passes to sample_task
TaskInputs == -1..MaxK

----------------------------------------------------------------------------
(* Controls *)

\* A numpy array is its shape and its elements in row-major order: a (k, 2)
\* array of goals, a flat array of two coordinates, or a scalar (shape <<>>)
Mat(rows) ==
    [shape |-> <<Len(rows), 2>>,
     v |-> [n \in 1..(2 * Len(rows)) |-> rows[((n - 1) \div 2) + 1][((n - 1) % 2) + 1]]]
Vec(pair) == [shape |-> <<2>>, v |-> pair]

\* Controls._goals: the redraw loop exits at once, every row drawn from
\* (1, 5] has norm below 10
DrawnGoals(kk) == {Mat(rows) : rows \in [1..kk -> CtorRows]}

\* Controls.true_goal: self.goals[self.index], an index into the first axis;
\* <<>> stands for IndexError.  On a (k, 2) array the result is a row
\* <<x, y>>, on a flat array of two coordinates it is the one coordinate <<c>>.
true_goal(gs, idx) ==
    LET at == PyIndex(gs.shape[1], idx) IN
    IF at = 0 THEN <<>>
    ELSE IF Len(gs.shape) = 2 THEN SubSeq(gs.v, 2 * at - 1, 2 * at)
    ELSE <<gs.v[at]>>

\* state - goal with numpy broadcasting of the pair state against the array
Diff(state, g) ==
    IF g.shape = <<>> THEN [n \in 1..2 |-> state[n] - g.v[1]]
    ELSE [n \in 1..Len(g.v) |-> state[((n - 1) % 2) + 1] - g.v[n]]

\* PointMassEnv.get_reward
get_reward(state, g) == IF SumSq(Diff(state, g)) < Thresh2 THEN 0 ELSE -1

\* Controls.sample_goal()
PMSampleGoal ==
    /\ kind = "pm"
    /\ \E g \in DrawnGoals(k) : goals' = g
    /\ ret' = Ret("sample_goal", "ok")
    /\ UNCHANGED <<k, index, fix_goal, pos, handed, was_reset>>
    /\ UNCHANGED <<ctorVars, pegVars>>

\* Controls.sample_goal(goals)
PMSampleGoalGiven ==
    /\ kind = "pm"
    /\ \E rows \in [1..k -> CallerRows] : goals' = Mat(rows)
    /\ handed' = TRUE
    /\ ret' = Ret("sample_goal", "ok")
    /\ UNCHANGED <<k, index, fix_goal, pos, was_reset>>
    /\ UNCHANGED <<ctorVars, pegVars>>

\* Controls.sample_task(): np.random.randint(0, self.k)
PMSampleTaskRandom ==
    /\ kind = "pm"
    /\ \E i \in 0..(k - 1) :
         /\ index' = i
         /\ ret' = [Ret("sample_task_random", "ok") EXCEPT !.arg = i]
    /\ UNCHANGED <<k, goals, fix_goal, pos, handed, was_reset>>
    /\ UNCHANGED <<ctorVars, pegVars>>

\* the assertion of sample_task(index): assert index < self.k
TaskAssert(i, kk) == i < kk

\* Controls.sample_task(index): the index is stored, then asserted
PMSampleTask(i) ==
    /\ kind = "pm"
    /\ index' = i
    /\ ret' = [Ret("sample_task", IF TaskAssert(i, k) THEN "ok" ELSE "AssertionError")
                 EXCEPT !.arg = i]
    /\ UNCHANGED <<k, goals, fix_goal, pos, handed, was_reset>>
    /\ UNCHANGED <<ctorVars, pegVars>>

\* env.fix_goal = b
PMSetFixGoal ==
    /\ kind = "pm"
    /\ fix_goal' = ~fix_goal
    /\ ret' = Ret("set_fix_goal", "ok")
    /\ UNCHANGED <<k, goals, index, pos, handed, was_reset>>
    /\ UNCHANGED <<ctorVars, pegVars>>

\* PointMassEnv.reset_model
PMReset ==
    /\ kind = "pm"
    /\ IF fix_goal
       THEN goals' = Vec(<<0, 0>>)
       ELSE \E gx \in BoxVals, gy \in BoxVals : goals' = Vec(<<gx, gy>>)
    /\ \E p \in PosSet :
         /\ pos' = p
         /\ ret' = [Ret("reset", "ok") EXCEPT !.obs.x = p]
    /\ was_reset' = TRUE
    /\ UNCHANGED <<k, index, fix_goal, handed>>
    /\ UNCHANGED <<ctorVars, pegVars>>

\* PointMassEnv.step(a) of a discrete environment
PMStepDiscrete(a) ==
    /\ kind = "pm"
    /\ discrete
    /\ LET at == PyIndex(Len(a_dict), a) IN
       IF at = 0
       THEN /\ ret' = [Ret("step", "IndexError") EXCEPT !.arg = a]
            /\ UNCHANGED pos
       ELSE \E p \in PosSet :
              /\ pos' = p
              /\ ret' = [Ret("step", "ok") EXCEPT
                           !.arg = a, !.ctrl = a_dict[at], !.obs.x = p,
                           !.reward = get_reward(p, goals),
                           !.done = (get_reward(p, goals) = 0)]
    /\ UNCHANGED <<k, goals, index, fix_goal, handed, was_reset>>
    /\ UNCHANGED <<ctorVars, pegVars>>

\* PointMassEnv.step(a) of a continuous environment
PMStepContinuous(a) ==
    /\ kind = "pm"
    /\ ~discrete
    /\ \E p \in PosSet :
         /\ pos' = p
         /\ ret' = [Ret("step", "ok") EXCEPT
                      !.ctrl = a, !.obs.x = p,
                      !.reward = get_reward(p, goals),
                      !.done = (get_reward(p, goals) = 0)]
    /\ UNCHANGED <<k, goals, index, fix_goal, handed, was_reset>>
    /\ UNCHANGED <<ctorVars, pegVars>>

\* indexes a caller passes to a discrete step: inside the table, just outside
\* it on both sides, and the negative indexes Python counts from the end
IndexInputs(n) == {-(n + 1), -1, 0, n \div 2, n - 1, n}

----------------------------------------------------------------------------
(* Peg2DEnv: samplers *)

\* (goal_low, goal_high) a peg environment is constructed with: the default,
\* a range wholly outside the accepted interval, and one that straddles it
GoalRanges == {<<-2, 2>>, <<30, 50>>, <<-50, 50>>}

\* candidates np_random.uniform(low, high) draws from [low, high)
GoalGrid(low, high) == {low, (low + high) \div 2, high - 1}

good_goal(g) == g[1] < GoodGoalBound /\ -GoodGoalBound < g[1]

good_state(state) == state[1] * 100 < HalfPi /\ -HalfPi < state[1] * 100

Sign(v) == IF v > 0 THEN 1 ELSE IF v < 0 THEN -1 ELSE 0

\* one row of _get_state: first joint j0 from uniform(-1.5, 1.5), spread from
\* uniform(0, pi/2), noise from uniform(0, pi/4)
StateCand(j0, spread, noise) ==
    <<j0, -j0 - Sign(j0) * spread, Sign(j0) * spread + noise>>

StateCands == {StateCand(j0, 157, 0) : j0 \in {-150, 149}}

\* the first element of a batch that passes the filter, as the "for" loop
\* finds it; ok[i] is the filter's verdict on b[i]; <<>> when the whole batch
\* is rejected
FirstGood(b, ok) ==
    IF \E i \in 1..Len(b) : ok[i]
    THEN <<b[CHOOSE i \in 1..Len(b) : ok[i] /\ \A j \in 1..(i - 1) : ~ok[j]]>>
    ELSE <<>>

GoodGoals(b) == [i \in 1..Len(b) |-> good_goal(b[i])]

GoodStates(b) == [i \in 1..Len(b) |-> good_state(b[i])]

----------------------------------------------------------------------------
(* Peg2DEnv: observation *)

ObsKeySets == {{"x", "goal"}, {"x", "goal", "img", "goal_img"}}

\* mutant of GetObs: the slot position is not restored after the render
GetObsNoRestore(q, obs_keys) ==
    LET moved == [q EXCEPT ![4] = OutOfFrame]
        local == IF "img" \in obs_keys THEN moved ELSE q
    IN [sim |-> local,
        obs |-> [x |-> IF "x" \in obs_keys THEN SubSeq(q, 1, 3) ELSE <<>>,
                 img |-> IF "img" \in obs_keys THEN <<moved[4]>> ELSE <<>>,
                 goal |-> IF "goal" \in obs_keys THEN <<local[4]>> ELSE <<>>]]

\* Peg2DEnv._get_obs on simulator positions q.  sim is what the simulator
\* holds when the call returns, img the slot position the renderer saw.
GetObs(q, obs_keys) ==
    LET saved == q[4]
        moved == [q EXCEPT ![4] = OutOfFrame]
        restored == [moved EXCEPT ![4] = saved]
        local == IF "img" \in obs_keys THEN restored ELSE q
    IN [sim |-> IF "img" \in obs_keys THEN restored ELSE q,
        obs |-> [x |-> IF "x" \in obs_keys THEN SubSeq(q, 1, 3) ELSE <<>>,
                 img |-> IF "img" \in obs_keys THEN <<moved[4]>> ELSE <<>>,
                 goal |-> IF "goal" \in obs_keys THEN <<local[4]>> ELSE <<>>]]

----------------------------------------------------------------------------
(* Peg2DEnv: reset_model *)

NoArgs == [x |-> <<>>, goal |-> <<>>]

\* arguments a caller passes to reset_model; <<>> is None
ResetXArgs == {<<>>, <<<<0, 0, 0>>>>}
ResetGoalArgs == {<<>>, <<0>>}

\* reset_model entry: self.reach_counts = 0
PegResetCall(xa, ga) ==
    /\ kind = "peg"
    /\ pc = "idle"
    /\ reach_counts' = 0
    /\ hist' = <<>>
    /\ args' = [x |-> xa, goal |-> ga]
    /\ pc' = "reset_x"
    /\ ret' = Ret("reset", "running")
    /\ UNCHANGED <<cfg, goal, qpos, cand>>
    /\ UNCHANGED <<ctorVars, pmVars>>

\* "if x is None: x = self._get_state()": one batch of the sampler's loop
PegResetState ==
    /\ kind = "peg"
    /\ pc = "reset_x"
    /\ IF args.x # <<>>
       THEN /\ pc' = "reset_goal"
            /\ UNCHANGED args
       ELSE \E b \in [1..BatchSize -> StateCands] :
              LET found == FirstGood(b, GoodStates(b)) IN
              IF found # <<>>
              THEN /\ args' = [args EXCEPT !.x = found]
                   /\ pc' = "reset_goal"
              ELSE UNCHANGED <<args, pc>>
    /\ UNCHANGED <<cfg, goal, qpos, reach_counts, cand, hist, ret>>
    /\ UNCHANGED <<ctorVars, pmVars>>

\* reset_model from "self.goal = goal" to the returned observation
ResetTail(x, g) ==
    LET q == x \o (IF cfg.free THEN <<OutOfFrame>> ELSE g)
        o == GetObs(q, cfg.obs_keys)
    IN /\ goal' = g
       /\ qpos' = o.sim
       /\ ret' = [Ret("reset", "ok") EXCEPT !.obs = o.obs, !.pre = q]
       /\ pc' = "idle"
       /\ args' = NoArgs
       /\ cand' = <<>>

\* one batch of _get_goal's loop, drawn as b
GoalBatch(b) ==
    LET found == FirstGood(b, GoodGoals(b)) IN
    IF found # <<>>
    THEN ResetTail(args.x[1], found[1])
    ELSE /\ cand' = b[Len(b)]
         /\ UNCHANGED <<goal, qpos, ret, pc, args>>

GoalBatches == [1..BatchSize -> {<<c>> : c \in GoalGrid(cfg.goal_low, cfg.goal_high)}]

\* "if goal is None: goal = self._get_goal()", then the rest of reset_model
PegResetGoal ==
    /\ kind = "peg"
    /\ pc = "reset_goal"
    /\ IF args.goal # <<>>
       THEN ResetTail(args.x[1], args.goal)
       ELSE \E b \in GoalBatches : GoalBatch(b)
    /\ UNCHANGED <<cfg, reach_counts, hist>>
    /\ UNCHANGED <<ctorVars, pmVars>>

\* a batch of _get_goal that holds an acceptable candidate
PegGoalAccepted ==
    /\ kind = "peg"
    /\ pc = "reset_goal"
    /\ args.goal = <<>>
    /\ \E b \in GoalBatches : FirstGood(b, GoodGoals(b)) # <<>> /\ GoalBatch(b)
    /\ UNCHANGED <<cfg, reach_counts, hist>>
    /\ UNCHANGED <<ctorVars, pmVars>>

----------------------------------------------------------------------------
(* Peg2DEnv: step *)

\* positions do_simulation may leave: the joints move or not, the slot is
\* driven towards its control a[3] or stays
SimOutcomes(q, ctrl) ==
    {x \o <<s>> : x \in {SubSeq(q, 1, 3), <<0, 0, 0>>}, s \in {q[4], ctrl[4]}}

\* mutant of CountUpdate: a nonzero reward leaves the counter as it is
CountUpdateNoClear(rc, reward) == IF reward = 0 THEN rc + 1 ELSE rc

\* the reach counter after a step of the given reward
CountUpdate(rc, reward) ==
    IF rc # 0 THEN (IF reward = 0 THEN rc + 1 ELSE 0)
    ELSE IF reward = 0 THEN 1 ELSE rc

\* reward = - np.linalg.norm(a), kept as -(norm squared)
PegReward(ctrl) == -SumSq(ctrl)

\* "if self.free: qpos[-1:] = 1; self.set_state(qpos, qvel)"
StepEntry(q) == IF cfg.free THEN [q EXCEPT ![4] = OutOfFrame] ELSE q

\* step from do_simulation to the return, on the control vector ctrl
StepBody(a, ctrl) ==
    \E q1 \in SimOutcomes(StepEntry(qpos), ctrl) :
      LET o == GetObs(q1, cfg.obs_keys)
          reward == PegReward(ctrl)
          rc == CountUpdate(reach_counts, reward)
          done == cfg.done_on_goal /\ rc > 1
      IN /\ qpos' = o.sim
         /\ reach_counts' = IF done THEN 0 ELSE rc
         /\ hist' = Append(hist, [zero |-> reward = 0, done |-> done])
         /\ ret' = [Ret("step", "ok") EXCEPT
                      !.arg = a, !.ctrl = ctrl, !.reward = reward,
                      !.done = done, !.obs = o.obs, !.pre = q1]

StepRaises(a, exc) ==
    /\ qpos' = StepEntry(qpos)
    /\ ret' = [Ret("step", exc) EXCEPT !.arg = a]
    /\ UNCHANGED <<reach_counts, hist>>

\* Peg2DEnv.step(a) of a discrete environment:
\* a = np.array([*self.a_dict[int(a)], self.goal])
PegStepDiscrete(a) ==
    /\ kind = "peg"
    /\ discrete
    /\ pc = "idle"
    /\ Len(hist) < MaxSteps
    /\ LET at == PyIndex(Len(a_dict), a) IN
       IF at = 0 THEN StepRaises(a, "IndexError")
       ELSE IF goal = <<>> THEN StepRaises(a, "AttributeError")
       ELSE StepBody(a, a_dict[at] \o goal)
    /\ UNCHANGED <<cfg, goal, pc, args, cand>>
    /\ UNCHANGED <<ctorVars, pmVars>>

\* control vectors a caller passes to a continuous peg step
PegContActs == {<<0, 0, 0, 0>>, <<100, 0, 0, 1>>}

\* Peg2DEnv.step(a) of a continuous environment
PegStepContinuous(a) ==
    /\ kind = "peg"
    /\ ~discrete
    /\ pc = "idle"
    /\ Len(hist) < MaxSteps
    /\ StepBody(0, a)
    /\ UNCHANGED <<cfg, goal, pc, args, cand>>
    /\ UNCHANGED <<ctorVars, pmVars>>

----------------------------------------------------------------------------
(* Construction *)

\* act_scale values a peg environment is constructed with (positive scales)
ActScales == {1, 2}

PegConfigs ==
    [id_less : BOOLEAN, act_scale : ActScales, done_on_goal : BOOLEAN,
     free : BOOLEAN, obs_keys : ObsKeySets,
     goal_low : {r[1] : r \in GoalRanges}, goal_high : {r[2] : r \in GoalRanges}]

\* the point-mass variables of a program that built a peg environment
NoPM ==
    /\ k = 1
    /\ goals = Mat(<<>>)
    /\ index = 0
    /\ fix_goal = FALSE
    /\ pos = <<0, 0>>
    /\ handed = FALSE
    /\ was_reset = FALSE

\* the peg variables before the first reset (and of a point-mass program)
FreshPeg ==
    /\ goal = <<>>
    /\ qpos = <<0, 0, 0, 0>>
    /\ reach_counts = 0
    /\ pc = "idle"
    /\ args = NoArgs
    /\ cand = <<>>
    /\ hist = <<>>

\* PointMassEnv.__init__, with Controls.__init__(k_goals).  The environment
\* passes k_goals=1; Controls is also modelled for the larger k a multi-task
\* caller constructs it with.
InitPM ==
    /\ kind = "pm"
    /\ discrete \in BOOLEAN
    /\ a_dict = IF discrete THEN PMTable ELSE <<>>
    /\ n_actions = IF discrete THEN PMDiscreteN ELSE 0
    /\ k \in 1..MaxK
    /\ goals \in DrawnGoals(k)
    /\ index = 0
    /\ fix_goal = FALSE
    /\ pos = <<0, 0>>
    /\ handed = FALSE
    /\ was_reset = FALSE
    /\ cfg = [id_less |-> FALSE, act_scale |-> 1, done_on_goal |-> FALSE,
              free |-> FALSE, obs_keys |-> {}, goal_low |-> 0, goal_high |-> 0]
    /\ FreshPeg
    /\ ret = Ret("init", "ok")

\* Peg2DEnv.__init__
InitPeg ==
    /\ kind = "peg"
    /\ discrete \in BOOLEAN
    /\ cfg \in PegConfigs
    /\ <<cfg.goal_low, cfg.goal_high>> \in GoalRanges
    /\ discrete \/ ~cfg.id_less
    /\ a_dict = IF discrete THEN PegTable(cfg.act_scale, cfg.id_less) ELSE <<>>
    /\ n_actions = IF discrete THEN PegDiscreteN(cfg.id_less) ELSE 0
    /\ NoPM
    /\ FreshPeg
    /\ ret = Ret("init", "ok")

Init == InitPM \/ InitPeg

Next ==
    \/ PMSampleGoal
    \/ PMSampleGoalGiven
    \/ PMSampleTaskRandom
    \/ \E i \in TaskInputs : PMSampleTask(i)
    \/ PMSetFixGoal
    \/ PMReset
    \/ \E a \in IndexInputs(Len(a_dict)) : PMStepDiscrete(a)
    \/ \E a \in PMContActs : PMStepContinuous(a)
    \/ \E xa \in ResetXArgs, ga \in ResetGoalArgs : PegResetCall(xa, ga)
    \/ PegResetState
    \/ PegResetGoal
    \/ \E a \in IndexInputs(Len(a_dict)) : PegStepDiscrete(a)
    \/ \E a \in PegContActs : PegStepContinuous(a)

Spec == Init /\ [][Next]_vars

\* The interpreter keeps executing a running reset_model call, and a sampling
\* range that holds acceptable candidates yields one with probability 1.
FairSpec ==
    /\ Spec
    /\ WF_vars(PegResetState)
    /\ WF_vars(PegResetGoal)
    /\ SF_vars(PegGoalAccepted)

----------------------------------------------------------------------------
(* Claims *)

\* the array a true goal is, for the distance: a row of two coordinates or,
\* when goals[index] is one coordinate, a scalar that numpy broadcasts
GoalArray(g) == IF Len(g) = 2 THEN Vec(g) ELSE [shape |-> <<>>, v |-> g]

\* C1 (as claimed): after a reset, every point-mass step returns reward 0.0
\* iff the distance between the observed position and the true goal
\* goals[index] is below 0.02, -1.0 otherwise, and done iff the reward is 0.0.
C1_RewardAgainstTrueGoal ==
    (kind = "pm" /\ was_reset /\ ret.op = "step" /\ ret.status = "ok") =>
        LET g == true_goal(goals, index) IN
        /\ g # <<>>
        /\ ret.reward = 0 <=> SumSq(Diff(pos, GoalArray(g))) < Thresh2
        /\ ret.reward # 0 => ret.reward = -1
        /\ ret.done <=> ret.reward = 0

\* C2 (as claimed): sample_task(i) succeeds iff 0 <= i < k; outside the range
\* it raises a range error, inside it get_goal_index() then returns i.
C2_SampleTaskRange ==
    (kind = "pm" /\ ret.op = "sample_task") =>
        /\ ret.status = "ok" <=> (0 <= ret.arg /\ ret.arg < k)
        /\ ret.status = "ok" => index = ret.arg

\* C3 (as claimed): in every reachable state of the task controls the stored
\* index satisfies 0 <= index < k and designates one of the k goals.
C3_IndexValid ==
    kind = "pm" =>
        /\ 0 <= index /\ index < k
        /\ goals.shape = <<k, 2>>
        /\ Len(true_goal(goals, index)) = 2

\* lexicographic order of two tuples of equal length, first component first
LexLess(s, t) ==
    \E i \in 1..Len(s) : s[i] < t[i] /\ \A j \in 1..(i - 1) : s[j] = t[j]

\* C4: the discrete action table is the Cartesian product of
\* {-scale, 0, +scale} over the controlled dimensions, first dimension varying
\* slowest; point-mass: 8 entries, none all-zero; peg with id_less: 26, none
\* all-zero; peg without: 27, exactly one all-zero; and the length equals the
\* size of the declared Discrete space.
C4_ActionTable ==
    discrete =>
        LET n == Len(a_dict)
            dims == IF kind = "pm" THEN 2 ELSE 3
            scale == IF kind = "pm" THEN PMScale ELSE 100 * cfg.act_scale
            product == [1..dims -> {-scale, 0, scale}]
            zero == [d \in 1..dims |-> 0]
            zeros == {i \in 1..n : a_dict[i] = zero}
        IN /\ {a_dict[i] : i \in 1..n} \cup {zero} = product
           /\ \A i \in 1..n : \A j \in (i + 1)..n : LexLess(a_dict[i], a_dict[j])
           /\ kind = "pm" => n = 8 /\ zeros = {}
           /\ (kind = "peg" /\ cfg.id_less) => n = 26 /\ zeros = {}
           /\ (kind = "peg" /\ ~cfg.id_less) => n = 27 /\ Cardinality(zeros) = 1
           /\ n = n_actions

\* C4 witness: on a 26-entry peg table, step(13) ran on the entry the nested
\* enumeration puts at 13, (0, 0, +scale)
C4_Witness ==
    /\ kind = "peg" /\ discrete /\ cfg.id_less
    /\ ret.op = "step" /\ ret.status = "ok" /\ ret.arg = 13
    /\ SubSeq(ret.ctrl, 1, 3) = <<0, 0, 100 * cfg.act_scale>>

\* C5 (as claimed): a discrete step with an index outside [0, table length),
\* negative indexes included, fails and never wraps or clamps; with an index
\* inside the range it uses exactly the table entry at that index.
C5_IndexOutOfRangeFails ==
    (discrete /\ ret.op = "step") =>
        /\ ~(0 <= ret.arg /\ ret.arg < Len(a_dict)) => ret.status = "IndexError"
        /\ (0 <= ret.arg /\ ret.arg < Len(a_dict) /\ ret.status = "ok") =>
              SubSeq(ret.ctrl, 1, Len(a_dict[1])) = a_dict[ret.arg + 1]

RECURSIVE ZeroRun(_)
\* number of consecutive most recent zero-reward steps of a history, counted
\* afresh after a step that returned done
ZeroRun(h) ==
    IF h = <<>> THEN 0
    ELSE IF h[Len(h)].done \/ ~h[Len(h)].zero THEN 0
    ELSE 1 + ZeroRun(SubSeq(h, 1, Len(h) - 1))

\* C6: the peg reach counter equals the number of consecutive most recent
\* zero-reward steps (0 after a nonzero-reward step and after reset); a step
\* returns done iff done_on_goal is set and it is the second consecutive
\* zero-reward step, the counter is 0 right after such a step, and without
\* done_on_goal no step returns done.
C6_ReachCounter ==
    kind = "peg" =>
        /\ reach_counts = ZeroRun(hist)
        /\ \A n \in 1..Len(hist) :
             hist[n].done <=>
                (cfg.done_on_goal /\ hist[n].zero /\ ZeroRun(SubSeq(hist, 1, n - 1)) >= 1)
        /\ (ret.op = "step" /\ ret.status = "ok") =>
              /\ ret.done = hist[Len(hist)].done
              /\ hist[Len(hist)].zero <=> ret.reward = 0
              /\ ret.done => reach_counts = 0

\* C6 witness: a step returned done on the second zero-reward step, and the
\* zero-reward step after it brought the counter from 0 to 1
C6_Witness ==
    /\ kind = "peg" /\ cfg.done_on_goal
    /\ Len(hist) = 3
    /\ hist[1].zero /\ ~hist[1].done
    /\ hist[2].zero /\ hist[2].done
    /\ hist[3].zero /\ ~hist[3].done
    /\ reach_counts = 1

\* C7 (as claimed): the reward of a discrete peg step is exactly 0 iff the
\* table entry at the given index is the all-zero tuple, whatever the goal,
\* and strictly negative for every other entry.
C7_ZeroRewardIffZeroAction ==
    (kind = "peg" /\ discrete /\ ret.op = "step" /\ ret.status = "ok"
        /\ 0 <= ret.arg /\ ret.arg < Len(a_dict)) =>
        /\ ret.reward = 0 <=> ~NotAllZero(a_dict[ret.arg + 1])
        /\ NotAllZero(a_dict[ret.arg + 1]) => ret.reward < 0

\* every coordinate the goal collection stores
GoalCoords == {goals.v[n] : n \in 1..Len(goals.v)}

\* C8 (as claimed): in an environment never handed caller-supplied goals,
\* every stored goal has both coordinates in [-0.3, 0.3].
C8_GoalsInBox ==
    (kind = "pm" /\ ~handed) =>
        \A c \in GoalCoords : -BoxHigh <= c /\ c <= BoxHigh

\* the sampling range lies inside the accepted interval (-0.26, 0.26)
RangeInside == -GoodGoalBound < cfg.goal_low /\ cfg.goal_high <= GoodGoalBound

\* C9 (as claimed): every call of the peg samplers terminates for every
\* goal_low and goal_high: with the range inside the accepted interval the
\* first batch yields the result, and a range that makes the predicate false
\* for every candidate makes the call fail after boundedly many batches; so
\* no batch is rejected in the first case and every running reset ends.
C9_SamplersTerminate ==
    /\ []((kind = "peg" /\ RangeInside) => cand = <<>>)
    /\ [](pc # "idle" => <>(pc = "idle"))

====
